---- MODULE Spec2Model ----
(***************************************************************************)
(* The alternating adversarial trainer of                                  *)
(* tier_3/post_processing/precipitation_downscaling_gan.ipynb:             *)
(* class DownscalingGAN (train_step, metrics), and the gan.fit driver that *)
(* calls train_step once per batch.                                        *)
(*                                                                         *)
(* The two networks, the loss function and the optimizers are opaque: a    *)
(* call's loss value and its gradient are inputs of the step, drawn from   *)
(* small sets.  A network's weights are one integer, the version of the    *)
(* weights: an optimizer step with a non-zero update yields the next       *)
(* version, one with a zero update leaves the weights as they are.  The    *)
(* noise tensor only feeds the opaque generator, so it is not a separate   *)
(* input.  Tensors are sequences along the batch axis.  Running means are  *)
(* exact fractions (float32 rounding is not modelled).                     *)
(***************************************************************************)
EXTENDS Integers, Sequences, FiniteSets, TLC

VARIABLES
    step_number,        \* self.step_number
    d_weights,          \* self.discriminator.trainable_weights
    g_weights,          \* self.generator.trainable_weights
    d_iterations,       \* self.d_optimizer.iterations: apply_gradients calls
    g_iterations,       \* self.g_optimizer.iterations
    disc_loss_tracker,  \* keras.metrics.Mean: [total, count]
    gen_loss_tracker,   \* keras.metrics.Mean: [total, count]
    driver,             \* where the caller is: "idle", "epoch_begin", "in_epoch"
    epoch,              \* fit: index of the current epoch
    batch_index,        \* fit: batches of the current epoch already processed
    call,               \* what the most recent train_step call did
    returned,           \* the dict the most recent completed call returned
    branch_log,         \* history: branch of every completed call, in order
    fed,                \* history: everything fed to each tracker since construction
    mark                \* history: value of fed at the last reset of the trackers

vars == <<step_number, d_weights, g_weights, d_iterations, g_iterations,
          disc_loss_tracker, gen_loss_tracker, driver, epoch, batch_index,
          call, returned, branch_log, fed, mark>>

network == <<d_weights, g_weights, d_iterations, g_iterations>>
trackers == <<disc_loss_tracker, gen_loss_tracker>>
fitvars == <<driver, epoch, batch_index>>

-----------------------------------------------------------------------------
(* Bounds of the model *)

\* number of train_step calls (completed or failed) explored
MaxCalls == 4
\* epochs of a fit run (the notebook passes epochs=30)
Epochs == 2
\* batches the dataset yields per epoch
BatchesPerEpoch == 3
\* largest batch size B
MaxBatch == 2
\* distinct loss values 1..NumLoss the loss function can yield
NumLoss == 2

Losses == 1..NumLoss
\* an optimizer update: 1 when it changes the weights, 0 when it is zero
Grads == {0, 1}
\* failures of the framework inside a branch
Faults == {"gradient", "apply_gradients"}

\* what the framework does inside a call: it yields a loss value and an
\* optimizer update, or it raises inside the branch
Framework ==
    {[fault |-> "none", loss |-> l, grads |-> g] : l \in Losses, g \in Grads}
    \cup {[fault |-> f, loss |-> 0, grads |-> 0] : f \in Faults}

\* a batch of B >= 1 samples: the samples' identities along the batch axis
Batches == {[i \in 1..b |-> i] : b \in 1..MaxBatch}

-----------------------------------------------------------------------------
(* Tensors of a batch *)

\* samples_lr and samples_hr of a batch (data unpacked)
SamplesLr(batch) == [i \in 1..Len(batch) |-> [kind |-> "lr", sample |-> batch[i]]]
SamplesHr(batch) == [i \in 1..Len(batch) |-> [kind |-> "hr", sample |-> batch[i]]]

\* self.generator([samples_lr, noise]) with the generator's current weights
Generator(samples_lr, w) ==
    [i \in 1..Len(samples_lr) |->
        [kind |-> "gen", sample |-> samples_lr[i].sample, weights |-> w]]

\* tf.ones((n, 1)) and tf.zeros((n, 1))
RECURSIVE Fill(_, _)
Fill(n, v) == IF n = 0 THEN <<>> ELSE <<v>> \o Fill(n - 1, v)
Ones(n) == Fill(n, 1)
Zeros(n) == Fill(n, 0)

\* tf.concat([a, b], axis=0)
Concat(a, b) == a \o b

-----------------------------------------------------------------------------
(* keras.metrics.Mean *)

NewMean == [total |-> 0, count |-> 0]

\* Mean.update_state(value)
UpdateState(tracker, value) ==
    [total |-> tracker.total + value, count |-> tracker.count + 1]

RECURSIVE GCD(_, _)
GCD(a, b) == IF b = 0 THEN a ELSE GCD(b, a % b)

\* variant: the sum instead of the mean
ResultSum(tracker) == <<tracker.total, 1>>

\* Mean.result(): total / count as a fraction in lowest terms, 0 when count = 0
\* (divide_no_nan)
Result(tracker) ==
    IF tracker.count = 0 THEN <<0, 1>>
    ELSE LET g == GCD(tracker.total, tracker.count)
         IN  <<tracker.total \div g, tracker.count \div g>>

\* Mean.reset_state()
ResetState(tracker) == NewMean

-----------------------------------------------------------------------------
(* Optimizer *)

\* optimizer.apply_gradients(zip(grads, weights)): the new weights
ApplyGradients(weights, grads) == weights + grads

-----------------------------------------------------------------------------
(* DownscalingGAN *)

NoCall ==
    [branch |-> "none", outcome |-> "none", fault |-> "none", error |-> "none",
     batch_size |-> 0, samples_lr |-> <<>>, samples_hr |-> <<>>, labels |-> <<>>]

NoneFed == [d |-> NewMean, g |-> NewMean]

\* __init__, then the notebook's module-level construction and compile
Init ==
    /\ step_number = 0
    /\ d_weights = 0
    /\ g_weights = 0
    /\ d_iterations = 0
    /\ g_iterations = 0
    /\ disc_loss_tracker = NewMean
    /\ gen_loss_tracker = NewMean
    /\ driver = "idle"
    /\ epoch = 0
    /\ batch_index = 0
    /\ call = NoCall
    /\ returned = [g_loss |-> <<0, 1>>, d_loss |-> <<0, 1>>]
    /\ branch_log = <<>>
    /\ fed = NoneFed
    /\ mark = NoneFed

\* variant: the discriminator's tracker is left out of the list
MetricsGeneratorOnly == {"generator_loss"}

\* the metrics property: the trackers the framework resets and reports
Metrics == {"generator_loss", "discriminator_loss"}

\* variant: the parity test inverted
SelectDiscriminatorOnOdd(n) == n % 2 = 1

\* the predicate of tf.cond: TRUE selects train_discriminator
SelectDiscriminator(n) == n % 2 = 0

\* variant: the counter advanced by two
IncrementByTwo(n) == n + 2

\* self.step_number + 1
Increment(n) == n + 1

\* variant: the two halves of the labels exchanged
DiscriminatorLabelsRealFirst(n) == Concat(Zeros(n), Ones(n))

\* labels of train_discriminator for batch size n
DiscriminatorLabels(n) == Concat(Ones(n), Zeros(n))

\* variant: the generator is trained towards the label of generated samples
MisleadingLabelsOnes(n) == Ones(n)

\* misleading_labels of train_generator for batch size n
MisleadingLabels(n) == Zeros(n)

\* combined_samples_hr and combined_samples_lr of train_discriminator
CombinedSamplesHr(samples_gen, samples_hr) == Concat(samples_gen, samples_hr)
CombinedSamplesLr(samples_lr) == Concat(samples_lr, samples_lr)

\* train_discriminator: what is handed to self.discriminator and self.loss_fn
DiscriminatorInputs(batch) ==
    LET samples_lr == SamplesLr(batch)
        samples_hr == SamplesHr(batch)
        samples_gen == Generator(samples_lr, g_weights)
    IN  [samples_lr |-> CombinedSamplesLr(samples_lr),
         samples_hr |-> CombinedSamplesHr(samples_gen, samples_hr),
         labels |-> DiscriminatorLabels(Len(batch))]

\* train_generator: what is handed to self.discriminator and self.loss_fn
GeneratorInputs(batch) ==
    LET samples_lr == SamplesLr(batch)
        samples_gen == Generator(samples_lr, g_weights)
    IN  [samples_lr |-> samples_lr,
         samples_hr |-> samples_gen,
         labels |-> MisleadingLabels(Len(batch))]

\* variant: the discriminator's loss is not monitored
TrainDiscriminatorUnmonitored(d_loss, grads) ==
    /\ d_weights' = ApplyGradients(d_weights, grads)
    /\ d_iterations' = d_iterations + 1
    /\ UNCHANGED <<disc_loss_tracker, g_weights, g_iterations, gen_loss_tracker>>

\* train_discriminator: gradient step on the discriminator, loss monitored
TrainDiscriminator(d_loss, grads) ==
    /\ d_weights' = ApplyGradients(d_weights, grads)
    /\ d_iterations' = d_iterations + 1
    /\ disc_loss_tracker' = UpdateState(disc_loss_tracker, d_loss)
    /\ UNCHANGED <<g_weights, g_iterations, gen_loss_tracker>>

\* variant: the generator's gradient step also moves the discriminator
TrainGeneratorThroughDiscriminator(g_loss, grads) ==
    /\ g_weights' = ApplyGradients(g_weights, grads)
    /\ g_iterations' = g_iterations + 1
    /\ d_weights' = ApplyGradients(d_weights, grads)
    /\ gen_loss_tracker' = UpdateState(gen_loss_tracker, g_loss)
    /\ UNCHANGED <<d_iterations, disc_loss_tracker>>

\* variant: the generator's loss is monitored by both trackers
TrainGeneratorMonitoredTwice(g_loss, grads) ==
    /\ g_weights' = ApplyGradients(g_weights, grads)
    /\ g_iterations' = g_iterations + 1
    /\ gen_loss_tracker' = UpdateState(gen_loss_tracker, g_loss)
    /\ disc_loss_tracker' = UpdateState(disc_loss_tracker, g_loss)
    /\ UNCHANGED <<d_weights, d_iterations>>

\* train_generator: gradient step on the generator, loss monitored
TrainGenerator(g_loss, grads) ==
    /\ g_weights' = ApplyGradients(g_weights, grads)
    /\ g_iterations' = g_iterations + 1
    /\ gen_loss_tracker' = UpdateState(gen_loss_tracker, g_loss)
    /\ UNCHANGED <<d_weights, d_iterations, disc_loss_tracker>>

\* variant: a failure is caught and the other branch is run instead
RecoverWithOtherBranch(b, batch, fault) ==
    /\ IF b = "D" THEN TrainGenerator(1, 1) ELSE TrainDiscriminator(1, 1)
    /\ call' = [branch |-> b, outcome |-> "returned", fault |-> fault,
                error |-> "none", batch_size |-> Len(batch), samples_lr |-> <<>>,
                samples_hr |-> <<>>, labels |-> <<>>]
    /\ UNCHANGED <<step_number, returned, branch_log, fed>>

\* the record of a call on `batch` taking branch `b`
CallRecord(b, batch, fault) ==
    LET in == IF b = "D" THEN DiscriminatorInputs(batch)
                         ELSE GeneratorInputs(batch)
    IN  [branch |-> b, outcome |-> IF fault = "none" THEN "returned" ELSE "raised",
         fault |-> fault, error |-> fault, batch_size |-> Len(batch),
         samples_lr |-> in.samples_lr, samples_hr |-> in.samples_hr,
         labels |-> in.labels]

\* a failure inside the branch (tape.gradient or apply_gradients raises):
\* train_step has no try/except, the exception leaves train_step before the
\* tracker update and before step_number.assign.  The failing optimizer step
\* is taken to have changed no weight.
Propagate(b, batch, fault) ==
    /\ call' = CallRecord(b, batch, fault)
    /\ UNCHANGED <<step_number, network, trackers, returned, branch_log, fed>>

\* variant: the branch is selected by the position of the batch in its epoch
TrainStepByBatchPosition(batch, fw) ==
    LET b == IF SelectDiscriminator(batch_index) THEN "D" ELSE "G"
    IN  IF fw.fault # "none"
        THEN Propagate(b, batch, fw.fault)
        ELSE /\ IF b = "D" THEN TrainDiscriminator(fw.loss, fw.grads)
                           ELSE TrainGenerator(fw.loss, fw.grads)
             /\ step_number' = Increment(step_number)
             /\ returned' = [g_loss |-> Result(gen_loss_tracker'),
                             d_loss |-> Result(disc_loss_tracker')]
             /\ call' = CallRecord(b, batch, "none")
             /\ branch_log' = Append(branch_log, b)
             /\ fed' = IF b = "D" THEN [fed EXCEPT !.d = UpdateState(@, fw.loss)]
                                  ELSE [fed EXCEPT !.g = UpdateState(@, fw.loss)]

\* train_step(data): tf.cond on the parity of step_number, then the increment,
\* then the results of both trackers
TrainStep(batch, fw) ==
    LET b == IF SelectDiscriminator(step_number) THEN "D" ELSE "G"
    IN  IF fw.fault # "none"
        THEN Propagate(b, batch, fw.fault)
        ELSE /\ IF b = "D" THEN TrainDiscriminator(fw.loss, fw.grads)
                           ELSE TrainGenerator(fw.loss, fw.grads)
             /\ step_number' = Increment(step_number)
             /\ returned' = [g_loss |-> Result(gen_loss_tracker'),
                             d_loss |-> Result(disc_loss_tracker')]
             /\ call' = CallRecord(b, batch, "none")
             /\ branch_log' = Append(branch_log, b)
             /\ fed' = IF b = "D" THEN [fed EXCEPT !.d = UpdateState(@, fw.loss)]
                                  ELSE [fed EXCEPT !.g = UpdateState(@, fw.loss)]

-----------------------------------------------------------------------------
(* Callers *)

\* gan.train_step(data) called outside fit
DirectCall(batch, fw) ==
    /\ driver = "idle"
    /\ Len(branch_log) < MaxCalls
    /\ TrainStep(batch, fw)
    /\ UNCHANGED <<fitvars, mark>>

\* gan.fit(dataset, epochs=Epochs) entered
Fit ==
    /\ driver = "idle"
    /\ driver' = "epoch_begin"
    /\ epoch' = 0
    /\ batch_index' = 0
    /\ UNCHANGED <<step_number, network, trackers, call, returned, branch_log, fed, mark>>

\* Model.reset_metrics(): reset_state on every metric of self.metrics.
\* DownscalingGAN overrides the metrics property to list both trackers, which
\* is what hands them to the epoch loop of Model.fit.
ResetMetrics ==
    /\ gen_loss_tracker' =
         IF "generator_loss" \in Metrics THEN ResetState(gen_loss_tracker)
                                         ELSE gen_loss_tracker
    /\ disc_loss_tracker' =
         IF "discriminator_loss" \in Metrics THEN ResetState(disc_loss_tracker)
                                             ELSE disc_loss_tracker

\* fit: an epoch starts; Keras' Model.fit calls self.reset_metrics() at the
\* start of every epoch, before the first batch.  step_number is a tf.Variable
\* of the model, not a metric, and is left alone.
EpochBegin ==
    /\ driver = "epoch_begin"
    /\ ResetMetrics
    /\ driver' = "in_epoch"
    /\ batch_index' = 0
    /\ mark' = fed
    /\ UNCHANGED <<step_number, network, epoch, call, returned, branch_log, fed>>

\* fit: train_step on the next batch of the epoch; an exception ends fit
FitBatch(batch, fw) ==
    /\ driver = "in_epoch"
    /\ batch_index < BatchesPerEpoch
    /\ Len(branch_log) < MaxCalls
    /\ TrainStep(batch, fw)
    /\ IF fw.fault = "none"
       THEN batch_index' = batch_index + 1 /\ UNCHANGED <<driver, epoch>>
       ELSE driver' = "idle" /\ UNCHANGED <<batch_index, epoch>>
    /\ UNCHANGED mark

\* fit: the dataset is exhausted, next epoch or return
EpochEnd ==
    /\ driver = "in_epoch"
    /\ batch_index = BatchesPerEpoch
    /\ epoch' = epoch + 1
    /\ driver' = IF epoch + 1 < Epochs THEN "epoch_begin" ELSE "idle"
    /\ UNCHANGED <<step_number, network, trackers, batch_index, call, returned,
                   branch_log, fed, mark>>

Next ==
    \/ \E batch \in Batches, fw \in Framework : DirectCall(batch, fw)
    \/ Fit
    \/ EpochBegin
    \/ \E batch \in Batches, fw \in Framework : FitBatch(batch, fw)
    \/ EpochEnd

Spec == Init /\ [][Next]_vars

-----------------------------------------------------------------------------
(* Properties *)

\* the step is a train_step call that returned
Completed == Len(branch_log') = Len(branch_log) + 1

\* the branch the call of a Completed step ran
Ran == branch_log'[Len(branch_log')]

\* the calls of the log that ran branch b
CallsOf(b) == {i \in 1..Len(branch_log) : branch_log[i] = b}

\* C1: in the sequence of completed train_step calls since construction the
\* first call runs the discriminator branch, no two consecutive calls run the
\* same branch, and of N calls ceil(N/2) ran the discriminator branch and
\* floor(N/2) the generator branch.
StrictAlternation ==
    LET N == Len(branch_log)
    IN  /\ N > 0 => branch_log[1] = "D"
        /\ \A i \in 1..(N - 1) : branch_log[i] # branch_log[i + 1]
        /\ Cardinality(CallsOf("D")) = (N + 1) \div 2
        /\ Cardinality(CallsOf("G")) = N \div 2

StrictAlternationWitness ==
    /\ Len(branch_log) = 3
    /\ branch_log = <<"D", "G", "D">>

\* C2: a call that runs the discriminator branch leaves the generator's
\* weights as they were, and a call that runs the generator branch leaves the
\* discriminator's weights as they were.
OtherNetworkUntouched ==
    [][Completed =>
          /\ Ran = "D" => g_weights' = g_weights
          /\ Ran = "G" => d_weights' = d_weights]_vars

OtherNetworkUntouchedWitness ==
    /\ call.branch = "G"
    /\ call.outcome = "returned"
    /\ g_weights > 0
    /\ d_weights > 0

\* the loss value a Completed step fed to the tracker of network n
LossFed(n) == fed'[n].total - fed[n].total

\* C3: a call that returns applies one optimizer step to exactly one network
\* and leaves the other network as it was, raises the step counter by exactly
\* 1, and feeds that call's loss to the tracker of the network it updated and
\* to no other tracker.
ExactlyOneUpdate ==
    [][Completed =>
          /\ step_number' = step_number + 1
          /\ \/ /\ d_iterations' = d_iterations + 1
                /\ <<g_weights, g_iterations>>' = <<g_weights, g_iterations>>
                /\ disc_loss_tracker' # disc_loss_tracker
                /\ disc_loss_tracker'.count = disc_loss_tracker.count + 1
                /\ disc_loss_tracker'.total = disc_loss_tracker.total + LossFed("d")
                /\ gen_loss_tracker' = gen_loss_tracker
             \/ /\ g_iterations' = g_iterations + 1
                /\ <<d_weights, d_iterations>>' = <<d_weights, d_iterations>>
                /\ gen_loss_tracker' # gen_loss_tracker
                /\ gen_loss_tracker'.count = gen_loss_tracker.count + 1
                /\ gen_loss_tracker'.total = gen_loss_tracker.total + LossFed("g")
                /\ disc_loss_tracker' = disc_loss_tracker]_vars

ExactlyOneUpdateWitness ==
    /\ call.outcome = "returned"
    /\ step_number = 2
    /\ d_iterations = 1
    /\ g_iterations = 1
    /\ disc_loss_tracker.count = 1
    /\ gen_loss_tracker.count = 1

\* the trackers were reset after the most recent call that returned
ResetSinceLastCall == mark = fed

\* C4 as stated: on a call of the generator branch the reported
\* discriminator loss is the one the previous call reported, and on a call of
\* the discriminator branch the reported generator loss is the one the
\* previous call reported.
ReportedCarriesOver ==
    [][Completed =>
          /\ Ran = "G" => returned'.d_loss = returned.d_loss
          /\ Ran = "D" => returned'.g_loss = returned.g_loss]_vars

\* C4 amended: a call changes only the tracker of the branch it runs; the
\* value it reports for the other tracker is that tracker's value before
\* the call, which is the value the previous call reported unless the
\* trackers were reset since the previous call returned.
ReportedCarriesOverUnlessReset ==
    [][Completed =>
          /\ Ran = "G" =>
                /\ disc_loss_tracker' = disc_loss_tracker
                /\ ~ResetSinceLastCall => returned'.d_loss = returned.d_loss
          /\ Ran = "D" =>
                /\ gen_loss_tracker' = gen_loss_tracker
                /\ ~ResetSinceLastCall => returned'.g_loss = returned.g_loss]_vars

ReportedCarriesOverWitness ==
    /\ call.branch = "G"
    /\ call.outcome = "returned"
    /\ driver = "in_epoch"
    /\ batch_index = 2
    /\ returned.d_loss = <<2, 1>>
    /\ returned.g_loss = <<1, 1>>

\* what has been fed to a tracker since the trackers were last reset
SinceReset(n) ==
    [total |-> fed[n].total - mark[n].total, count |-> fed[n].count - mark[n].count]

\* the fraction frac is the arithmetic mean of what acc accumulated, or 0 when
\* acc accumulated nothing
IsMeanOf(frac, acc) ==
    IF acc.count = 0 THEN frac = <<0, 1>>
    ELSE frac[2] > 0 /\ frac[1] * acc.count = acc.total * frac[2]

\* C5 as stated: what a call returns for a tracker is the mean of all loss
\* values fed to that tracker since construction.
ReturnsMeanOfAllFed ==
    Len(branch_log) > 0 =>
        /\ IsMeanOf(returned.d_loss, fed.d)
        /\ IsMeanOf(returned.g_loss, fed.g)

\* C5 amended: what a call returns for a tracker is the mean of the loss
\* values fed to that tracker since the trackers were last reset, 0 when
\* there is none; after the first call the discriminator's value is that
\* call's loss and the generator's is 0; after the second call, no reset
\* having happened after the first, both hold a loss.
ReturnsMeanSinceReset ==
    Len(branch_log) > 0 =>
        /\ ~ResetSinceLastCall =>
              /\ IsMeanOf(returned.d_loss, SinceReset("d"))
              /\ IsMeanOf(returned.g_loss, SinceReset("g"))
        /\ Len(branch_log) = 1 =>
              /\ returned.d_loss = <<fed.d.total, 1>>
              /\ returned.d_loss[1] \in Losses
              /\ returned.g_loss = <<0, 1>>
        /\ (Len(branch_log) = 2 /\ mark = NoneFed) =>
              /\ returned.d_loss[1] \in Losses
              /\ returned.g_loss[1] \in Losses

ReturnsMeanSinceResetWitness ==
    /\ Len(branch_log) = 3
    /\ mark = NoneFed
    /\ fed.d = [total |-> 3, count |-> 2]
    /\ returned.d_loss = <<3, 2>>
    /\ returned.g_loss = <<2, 1>>

\* C6 as stated: nothing after construction clears a tracker, each tracker
\* holds every loss value fed to it since construction.
TrackersNeverCleared ==
    /\ disc_loss_tracker = fed.d
    /\ gen_loss_tracker = fed.g

\* C6 amended: the trackers are cleared at construction and at the start of
\* every epoch of fit, and by nothing else: each tracker holds every loss value
\* fed to it since the later of the two.
TrackersClearedAtEpochStart ==
    /\ disc_loss_tracker = SinceReset("d")
    /\ gen_loss_tracker = SinceReset("g")
    /\ (driver = "in_epoch" /\ batch_index = 0) =>
          /\ disc_loss_tracker = NewMean
          /\ gen_loss_tracker = NewMean

TrackersClearedAtEpochStartWitness ==
    /\ driver = "in_epoch"
    /\ epoch = 1
    /\ batch_index = 1
    /\ fed.d.count = 2
    /\ fed.g.count = 2
    /\ disc_loss_tracker.count = 0
    /\ gen_loss_tracker.count = 1

\* C7: the step counter is 0 at construction and always equals the number of
\* train_step calls that have returned; only a call that returns changes it,
\* by exactly +1, and the branch that call ran is the one the parity of the
\* counter's value before the call selects.
CounterCountsCalls ==
    /\ step_number = 0
    /\ [][/\ step_number' = Len(branch_log')
          /\ step_number' >= step_number
          /\ step_number' # step_number =>
                /\ Completed
                /\ step_number' = step_number + 1
                /\ Ran = (IF step_number % 2 = 0 THEN "D" ELSE "G")]_vars

CounterCountsCallsWitness ==
    /\ step_number = 4
    /\ driver = "in_epoch"
    /\ epoch = 1
    /\ batch_index = 1

\* the step is a train_step call inside which the framework raised
Failed == call' # call /\ call'.fault # "none"

\* C9: when the framework raises inside a branch, the call raises that same
\* error to its caller and returns nothing; the branch it had selected is the
\* one the counter's parity selects, the other branch's network and optimizer
\* are not touched (the other branch is not run instead), and the counter and
\* both trackers stay as they were (the step is neither completed nor retried).
FailurePropagates ==
    [][Failed =>
          /\ call'.outcome = "raised"
          /\ call'.error = call'.fault
          /\ call'.branch = (IF step_number % 2 = 0 THEN "D" ELSE "G")
          /\ call'.branch = "D" => UNCHANGED <<g_weights, g_iterations>>
          /\ call'.branch = "G" => UNCHANGED <<d_weights, d_iterations>>
          /\ UNCHANGED <<step_number, trackers, returned, branch_log>>]_vars

FailurePropagatesWitness ==
    /\ call.outcome = "raised"
    /\ call.error = "apply_gradients"
    /\ call.branch = "G"
    /\ step_number = 1

\* C10: in the discriminator branch with a batch of size B, the high-resolution
\* input, the low-resolution input and the labels all have length 2B; position
\* i <= B holds the sample generated from low-resolution sample i, that
\* low-resolution sample and label 1; position B + i holds real sample i, the
\* same low-resolution sample and label 0.
DiscriminatorBatchAligned ==
    call.branch = "D" =>
        LET B == call.batch_size
        IN  /\ B >= 1
            /\ Len(call.samples_hr) = 2 * B
            /\ Len(call.samples_lr) = 2 * B
            /\ Len(call.labels) = 2 * B
            /\ \A i \in 1..B :
                  /\ call.samples_hr[i].kind = "gen"
                  /\ call.samples_hr[i].sample = i
                  /\ call.samples_lr[i] = [kind |-> "lr", sample |-> i]
                  /\ call.labels[i] = 1
                  /\ call.samples_hr[B + i] = [kind |-> "hr", sample |-> i]
                  /\ call.samples_lr[B + i] = [kind |-> "lr", sample |-> i]
                  /\ call.labels[B + i] = 0

DiscriminatorBatchAlignedWitness ==
    /\ call.branch = "D"
    /\ call.outcome = "returned"
    /\ call.batch_size = 2
    /\ step_number = 3

\* C11: in the generator branch with a batch of size B, the labels handed to
\* the loss are B zeros, the value the discriminator branch gives to the real
\* half of its labels, and the discriminator is run on exactly B pairs:
\* low-resolution sample i with the sample generated from it.
GeneratorLabelsSayReal ==
    call.branch = "G" =>
        LET B == call.batch_size
        IN  /\ B >= 1
            /\ Len(call.labels) = B
            /\ Len(call.samples_lr) = B
            /\ Len(call.samples_hr) = B
            /\ \A i \in 1..B :
                  /\ call.labels[i] = 0
                  /\ call.labels[i] = DiscriminatorLabels(B)[B + i]
                  /\ call.labels[i] # DiscriminatorLabels(B)[i]
                  /\ call.samples_lr[i] = [kind |-> "lr", sample |-> i]
                  /\ call.samples_hr[i].kind = "gen"
                  /\ call.samples_hr[i].sample = i

GeneratorLabelsSayRealWitness ==
    /\ call.branch = "G"
    /\ call.outcome = "returned"
    /\ call.batch_size = 2
    /\ step_number = 2

\* the step is the train_step call on the first batch of a fit epoch
FirstBatchOfEpoch == Completed /\ driver = "in_epoch" /\ batch_index = 0

\* the branch a count n of earlier calls selects
BranchAfter(n) == IF n % 2 = 0 THEN "D" ELSE "G"

\* C12: no step of fit other than a train_step call changes the step counter
\* (an epoch's start does not reset it), and the call on the first batch of an
\* epoch runs the branch the number of calls completed before it selects:
\* discriminator if even, generator if odd.  When all of those were batches of
\* the earlier epochs of this fit run, that number is epoch * BatchesPerEpoch.
AlternationCrossesEpochs ==
    [][/\ ~Completed => step_number' = step_number
       /\ FirstBatchOfEpoch =>
             /\ Ran = BranchAfter(Len(branch_log))
             /\ Len(branch_log) = epoch * BatchesPerEpoch =>
                   Ran = BranchAfter(epoch * BatchesPerEpoch)]_vars

AlternationCrossesEpochsWitness ==
    /\ driver = "in_epoch"
    /\ epoch = 1
    /\ batch_index = 1
    /\ branch_log = <<"D", "G", "D", "G">>
    /\ call.branch = "G"

====
